---------------------------- MODULE Spec2Model ----------------------------
(***************************************************************************)
(* Model of amortisation.py: the schedule generator                        *)
(* (calculate_amortization), the fiscal aggregator                         *)
(* (calculate_annual_metrics), the batch combiner (create_excel_file) and  *)
(* the batch upload loop that drives them.                                 *)
(*                                                                         *)
(* Numbers.  Python floats are modelled as exact rationals <<n, d>> in     *)
(* lowest terms (d > 0), plus the value NaN == <<0, 0>> that pandas puts   *)
(* in an empty cell.  Arithmetic on NaN gives NaN and every comparison     *)
(* with NaN is false, as in IEEE-754.  Binary rounding is not modelled:    *)
(* a statement "within rounding epsilon" is read as exact equality.        *)
(*                                                                         *)
(* Dates are records [year, month, day]; the text a date is formatted to   *)
(* is the sequence of its three numeric fields in the order the format     *)
(* writes them, so that formatting and parsing are separate conversions.   *)
(***************************************************************************)
EXTENDS Integers, Sequences, FiniteSets

(***************************** float arithmetic ****************************)

NaN == <<0, 0>>

IsNaN(a) == a[2] = 0

Abs(n) == IF n < 0 THEN -n ELSE n

RECURSIVE GCD(_, _)
GCD(a, b) == IF b = 0 THEN a ELSE GCD(b, a % b)

\* the float with value n/d (d > 0), in lowest terms
Rat(n, d) == LET g == GCD(Abs(n), d) IN <<n \div g, d \div g>>

Int2Float(n) == <<n, 1>>

Zero == <<0, 1>>

RNeg(a) == IF IsNaN(a) THEN NaN ELSE <<-a[1], a[2]>>

RAdd(a, b) ==
    IF IsNaN(a) \/ IsNaN(b) THEN NaN
    ELSE LET g == GCD(a[2], b[2])
         IN  Rat(a[1] * (b[2] \div g) + b[1] * (a[2] \div g), (a[2] \div g) * b[2])

RSub(a, b) == RAdd(a, RNeg(b))

RMul(a, b) ==
    IF IsNaN(a) \/ IsNaN(b) THEN NaN
    ELSE LET g1 == GCD(Abs(a[1]), b[2])
             g2 == GCD(Abs(b[1]), a[2])
         IN  IF a[1] = 0 \/ b[1] = 0 THEN Zero
             ELSE <<(a[1] \div g1) * (b[1] \div g2), (a[2] \div g2) * (b[2] \div g1)>>

\* a / b for a divisor that is not zero (every division of the program is by a
\* literal or by (1 + r)^n - 1 with r > 0 or r NaN)
RDiv(a, b) ==
    IF IsNaN(a) \/ IsNaN(b) THEN NaN
    ELSE IF b[1] < 0 THEN RMul(a, <<-b[2], -b[1]>>)
    ELSE RMul(a, <<b[2], b[1]>>)

RECURSIVE RPow(_, _)
RPow(a, n) == IF n = 0 THEN Int2Float(1) ELSE RMul(a, RPow(a, n - 1))

\* a < b
RLt(a, b) ==
    /\ ~IsNaN(a)
    /\ ~IsNaN(b)
    /\ LET g == GCD(a[2], b[2])
       IN  a[1] * (b[2] \div g) < b[1] * (a[2] \div g)

\* a <= b
RLe(a, b) ==
    /\ ~IsNaN(a)
    /\ ~IsNaN(b)
    /\ ~RLt(b, a)

\* pandas Series.sum(): skipna=True, the sum of no values is 0
RECURSIVE SumSkipNa(_)
SumSkipNa(s) ==
    IF s = <<>> THEN Zero
    ELSE LET h == IF IsNaN(Head(s)) THEN Zero ELSE Head(s)
         IN  RAdd(h, SumSkipNa(Tail(s)))

(********************************* dates ***********************************)

IsLeap(y) == (y % 4 = 0 /\ y % 100 # 0) \/ y % 400 = 0

DaysInMonth(y, m) ==
    IF m = 2 THEN (IF IsLeap(y) THEN 29 ELSE 28)
    ELSE IF m \in {4, 6, 9, 11} THEN 30 ELSE 31

Min(a, b) == IF a <= b THEN a ELSE b

Date(y, m, d) == [year |-> y, month |-> m, day |-> d]

IsDate(y, m, d) == m \in 1..12 /\ d \in 1..DaysInMonth(y, m)

DateLt(a, b) ==
    \/ a.year < b.year
    \/ a.year = b.year /\ a.month < b.month
    \/ a.year = b.year /\ a.month = b.month /\ a.day < b.day

DateLe(a, b) == a = b \/ DateLt(a, b)

\* date + relativedelta(months=k): the month moves, the day is cut down to the
\* length of the month reached
AddMonths(date, k) ==
    LET t == date.month - 1 + k
        y == date.year + (t \div 12)
        m == (t % 12) + 1
    IN  Date(y, m, Min(date.day, DaysInMonth(y, m)))

\* date + relativedelta(years=1)
AddYear(date) ==
    Date(date.year + 1, date.month,
         Min(date.day, DaysInMonth(date.year + 1, date.month)))

(************************ formatting and parsing dates *********************)

\* date.strftime('%d/%m/%Y'): the text "dd/mm/yyyy"
StrftimeDMY(date) == <<date.day, date.month, date.year>>

\* date.strftime('%Y-%m-%d'): the text "yyyy-mm-dd"
StrftimeYMD(date) == <<date.year, date.month, date.day>>

\* datetime.strptime(text, fmt): [ok |-> FALSE] stands for ValueError
Parsed(y, m, d) ==
    IF IsDate(y, m, d) THEN [ok |-> TRUE, date |-> Date(y, m, d)]
    ELSE [ok |-> FALSE, date |-> Date(0, 0, 0)]

StrptimeMDY(text) == Parsed(text[3], text[1], text[2])

StrptimeDMY(text) == Parsed(text[3], text[2], text[1])

StrptimeYMD(text) == Parsed(text[1], text[2], text[3])

get_financial_year(date) ==
    IF date.month >= 4 THEN date.year ELSE date.year - 1

\* parse_date: month/day/year is tried first, day/month/year only when that
\* raises ValueError
parse_date(date_str) ==
    IF StrptimeMDY(date_str).ok THEN StrptimeMDY(date_str)
    ELSE StrptimeDMY(date_str)

(*************************** calculate_amortization ************************)

\* an absent payment_amount_lakhs
None == <<0, -1>>

Lakh == Int2Float(100000)

\* the EMI of the annuity formula
Annuity(loan_amount, monthly_rate, n) ==
    LET pw == RPow(RAdd(Int2Float(1), monthly_rate), n)
    IN  RDiv(RMul(loan_amount, RMul(monthly_rate, pw)), RSub(pw, Int2Float(1)))

\* the loop's period without the cap of the principal at the balance
AmortStepNoCap(balance, emi, monthly_rate) ==
    LET interest  == RMul(balance, monthly_rate)
        principal == RSub(emi, interest)
    IN  [interest |-> interest, principal |-> principal, emi |-> emi,
         balance |-> RSub(balance, principal)]

\* the loop's period with a principal that is never let below 0
AmortStepFloor(balance, emi, monthly_rate) ==
    LET interest  == RMul(balance, monthly_rate)
        principal == IF RLt(emi, interest) THEN Zero ELSE RSub(emi, interest)
        capped    == RLt(balance, principal)
        p         == IF capped THEN balance ELSE principal
        e         == IF capped THEN RAdd(p, interest) ELSE emi
    IN  [interest |-> interest, principal |-> p, emi |-> e,
         balance |-> RSub(balance, p)]

\* one period of the loop: interest, principal, the cap of the principal at
\* the balance (which also overwrites emi), and the new balance
AmortStep(balance, emi, monthly_rate) ==
    LET interest  == RMul(balance, monthly_rate)
        principal == RSub(emi, interest)
        capped    == RLt(balance, principal)
        p         == IF capped THEN balance ELSE principal
        e         == IF capped THEN RAdd(p, interest) ELSE emi
    IN  [interest |-> interest, principal |-> p, emi |-> e,
         balance |-> RSub(balance, p)]

\* the date of the next period
NextDate(current_date) == AddMonths(current_date, 1)

RECURSIVE AmortLoop(_, _, _, _, _, _)
AmortLoop(left, balance, emi, monthly_rate, current_date, schedule) ==
    IF left = 0 THEN schedule
    ELSE LET s == AmortStep(balance, emi, monthly_rate)
             row == [Date            |-> StrftimeDMY(current_date),
                     Financial_Year  |-> get_financial_year(current_date),
                     Principal_Lakhs |-> RDiv(s.principal, Lakh),
                     Interest_Lakhs  |-> RDiv(s.interest, Lakh),
                     Payment_Lakhs   |-> RDiv(s.emi, Lakh),
                     Balance_Lakhs   |-> RDiv(s.balance, Lakh),
                     EMI_Lakhs       |-> RDiv(s.emi, Lakh)]
         IN  AmortLoop(left - 1, s.balance, s.emi, monthly_rate,
                       NextDate(current_date), Append(schedule, row))

\* the precondition of line 47
InvalidInput(loan_amount_lakhs, annual_rate, term_months) ==
    \/ RLe(loan_amount_lakhs, Zero)
    \/ RLe(annual_rate, Zero)
    \/ RLe(Int2Float(50), annual_rate)
    \/ term_months <= 0

\* start_date is [kind, text]; strptime raises TypeError on anything but a str.
\* The result is [raised |-> "" | "ValueError" | "TypeError", schedule].
calculate_amortization(loan_amount_lakhs, annual_rate, term_months, start_date, payment_amount_lakhs) ==
    IF InvalidInput(loan_amount_lakhs, annual_rate, term_months)
    THEN [raised |-> "ValueError", schedule |-> <<>>]
    ELSE IF start_date.kind # "str"
    THEN [raised |-> "TypeError", schedule |-> <<>>]
    ELSE IF ~StrptimeYMD(start_date.text).ok
    THEN [raised |-> "ValueError", schedule |-> <<>>]
    ELSE LET loan_amount  == RMul(loan_amount_lakhs, Lakh)
             monthly_rate == RDiv(RDiv(annual_rate, Int2Float(100)), Int2Float(12))
             emi == IF payment_amount_lakhs = None \/ payment_amount_lakhs = Zero
                    THEN Annuity(loan_amount, monthly_rate, term_months)
                    ELSE RMul(payment_amount_lakhs, Lakh)
         IN  [raised   |-> "",
              schedule |-> AmortLoop(term_months, loan_amount, emi, monthly_rate,
                                     StrptimeYMD(start_date.text).date, <<>>)]

(********************************* text ************************************)

\* a str is the sequence of its characters
DigitChar == <<"0", "1", "2", "3", "4", "5", "6", "7", "8", "9">>

\* str(n) for n >= 0
RECURSIVE Str(_)
Str(n) ==
    IF n < 10 THEN <<DigitChar[n + 1]>>
    ELSE Append(Str(n \div 10), DigitChar[(n % 10) + 1])

\* s[-2:]
Last2(s) == IF Len(s) <= 2 THEN s ELSE SubSeq(s, Len(s) - 1, Len(s))

\* s.startswith(prefix)
StartsWith(s, prefix) ==
    /\ Len(prefix) <= Len(s)
    /\ SubSeq(s, 1, Len(prefix)) = prefix

\* f"FY {year}-{str(year + 1)[-2:]}"
format_fy(year) ==
    <<"F", "Y", " ">> \o Str(year) \o <<"-">> \o Last2(Str(year + 1))

PrincipalLabel   == <<"P", "r", "i", "n", "c", "i", "p", "a", "l">>
InterestLabel    == <<"I", "n", "t", "e", "r", "e", "s", "t">>
OutstandingLabel == <<"O", "u", "t", "s", "t", "a", "n", "d", "i", "n", "g">>
LiabilityLabel   == <<"L", "i", "a", "b", "i", "l", "i", "t", "y">>
LiabilitiesSheet == <<"L", "i", "a", "b", "i", "l", "i", "t", "i", "e", "s">>
TotalLabel       == <<"T", "o", "t", "a", "l">>

\* f"{metric} {fy_label}"
ColumnName(metric, year) == metric \o <<" ">> \o format_fy(year)

(************************* calculate_annual_metrics ************************)

\* schedule_df['Date'].apply(parse_date): the Date column holds what parse_date
\* makes of the text the generator wrote
ParseDates(schedule) ==
    [k \in 1..Len(schedule) |->
        [schedule[k] EXCEPT !.Date = parse_date(schedule[k].Date).date]]

\* schedule_df['Date'].min()
MinDate(df) ==
    CHOOSE d \in {df[k].Date : k \in 1..Len(df)} :
        \A k \in 1..Len(df) : DateLe(d, df[k].Date)

\* max(schedule_df['Financial_Year'])
MaxFinancialYear(df) ==
    CHOOSE y \in {df[k].Financial_Year : k \in 1..Len(df)} :
        \A k \in 1..Len(df) : df[k].Financial_Year <= y

YearCap == 20

\* list(range(min_year, max_year))
Years(df) ==
    LET min_year == get_financial_year(MinDate(df))
        max_year == Min(MaxFinancialYear(df) + 1, min_year + YearCap)
    IN  [i \in 1..(max_year - min_year) |-> min_year + i - 1]

\* column col of the rows selected from a frame
Column(rows, col) == [k \in 1..Len(rows) |-> rows[k][col]]

\* annual_summary: groupby('Financial_Year') sum, and 0.0 for a year with no row
AnnualSum(df, col, year) ==
    LET InYear(r) == r.Financial_Year = year
    IN  SumSkipNa(Column(SelectSeq(df, InYear), col))

\* the balance on 31 March that ends fiscal year `year`
OutstandingBalance(df, year, loan_amount_lakhs) ==
    LET start_date == df[1].Date
        end_date   == Date(year + 1, 3, 31)
        Paid(r)    == DateLe(r.Date, end_date)
        last_payment == SelectSeq(df, Paid)
    IN  IF DateLt(end_date, start_date) THEN loan_amount_lakhs
        ELSE IF last_payment # <<>>
             THEN last_payment[Len(last_payment)].Balance_Lakhs
             ELSE Zero

\* the principal of the 12 months after 31 March that ends fiscal year `year`
CurrentLiability(df, year) ==
    LET current_date  == Date(year + 1, 3, 31)
        next_year_end == AddYear(current_date)
        Due(r) == DateLt(current_date, r.Date) /\ DateLe(r.Date, next_year_end)
    IN  SumSkipNa(Column(SelectSeq(df, Due), "Principal_Lakhs"))

\* a one-row DataFrame: 'Sr no', 'Loan name' and one column per fiscal year
Pivot(sr_no, loan_name, metric, years, values) ==
    [sr_no     |-> sr_no,
     loan_name |-> loan_name,
     columns   |-> [i \in 1..Len(years) |-> ColumnName(metric, years[i])],
     cells     |-> [c \in {ColumnName(metric, years[i]) : i \in 1..Len(years)} |->
                      values[CHOOSE i \in 1..Len(years) :
                                 ColumnName(metric, years[i]) = c]]]

\* the four one-row frames of a schedule whose dates are parsed
AnnualPivots(schedule_df, sr_no, loan_name, loan_amount_lakhs) ==
    LET years == Years(schedule_df)
        principal_values ==
            [i \in 1..Len(years) |-> AnnualSum(schedule_df, "Principal_Lakhs", years[i])]
        interest_values ==
            [i \in 1..Len(years) |-> AnnualSum(schedule_df, "Interest_Lakhs", years[i])]
        outstanding_balances ==
            [i \in 1..Len(years) |->
                OutstandingBalance(schedule_df, years[i], loan_amount_lakhs)]
        current_liabilities ==
            [i \in 1..Len(years) |-> CurrentLiability(schedule_df, years[i])]
    IN  [schedule_df       |-> schedule_df,
         principal_pivot   |-> Pivot(sr_no, loan_name, PrincipalLabel, years, principal_values),
         interest_pivot    |-> Pivot(sr_no, loan_name, InterestLabel, years, interest_values),
         outstanding_pivot |-> Pivot(sr_no, loan_name, OutstandingLabel, years, outstanding_balances),
         liabilities_pivot |-> Pivot(sr_no, loan_name, LiabilityLabel, years, current_liabilities)]

\* (a value bound by "x \in {e}" is computed once; it is LET x == e otherwise)
calculate_annual_metrics(schedule, sr_no, loan_name, loan_amount_lakhs) ==
    CHOOSE out \in {AnnualPivots(schedule_df, sr_no, loan_name, loan_amount_lakhs) :
                        schedule_df \in {ParseDates(schedule)}} : TRUE

(***************************** create_excel_file ***************************)

\* round(x, 2) as numpy rounds: to the nearest hundredth, a tie to the even one
Round2(a) ==
    IF IsNaN(a) THEN NaN
    ELSE LET h   == RMul(a, Int2Float(100))
             fl  == h[1] \div h[2]
             rem == h[1] - fl * h[2]
             r   == IF 2 * rem < h[2] THEN fl
                    ELSE IF 2 * rem > h[2] THEN fl + 1
                    ELSE IF fl % 2 = 0 THEN fl ELSE fl + 1
         IN  Rat(r, 100)

\* the columns of pd.concat(data_frames): their union, in order of appearance
RECURSIVE ConcatColumns(_)
ConcatColumns(data_frames) ==
    IF data_frames = <<>> THEN <<>>
    ELSE LET n     == Len(data_frames)
             front == ConcatColumns(SubSeq(data_frames, 1, n - 1))
             Seen(c) == \E i \in 1..Len(front) : front[i] = c
             New(c)  == ~Seen(c)
         IN  front \o SelectSeq(data_frames[n].columns, New)

ColumnSet(columns) == {columns[i] : i \in 1..Len(columns)}

\* a cell a frame has no column for is NaN after pd.concat
Reindex(row, columns) ==
    [sr_no     |-> row.sr_no,
     loan_name |-> row.loan_name,
     cells     |-> [c \in ColumnSet(columns) |->
                      IF c \in DOMAIN row.cells THEN row.cells[c] ELSE NaN]]

\* line 167: combined_df
CombinedFrame(data_frames) ==
    LET columns == ConcatColumns(data_frames)
    IN  [columns |-> columns,
         rows    |-> [k \in 1..Len(data_frames) |-> Reindex(data_frames[k], columns)]]

\* lines 170-171: the columns named after the sheet, and their sum in 'Total'
WithRowTotals(combined_df, sheet_name) ==
    LET IsFy(c) == StartsWith(c, sheet_name)
        fy_columns == SelectSeq(combined_df.columns, IsFy)
        RowTotal(k) ==
            SumSkipNa([i \in 1..Len(fy_columns) |->
                          combined_df.rows[k].cells[fy_columns[i]]])
    IN  [columns    |-> Append(combined_df.columns, TotalLabel),
         fy_columns |-> fy_columns,
         rows       |-> [k \in 1..Len(combined_df.rows) |->
                           [combined_df.rows[k] EXCEPT !.cells =
                               [c \in ColumnSet(combined_df.columns) \cup {TotalLabel} |->
                                   IF c = TotalLabel THEN RowTotal(k)
                                   ELSE combined_df.rows[k].cells[c]]]]]

\* lines 174-181: total_row has the sheet's columns and 'Total'; final_df has
\* NaN where total_row has no column
WithTotalRow(combined_df) ==
    LET ColumnSum(c) ==
            SumSkipNa([k \in 1..Len(combined_df.rows) |-> combined_df.rows[k].cells[c]])
        total_row ==
            [sr_no     |-> TotalLabel,
             loan_name |-> <<>>,
             cells     |-> [c \in ColumnSet(combined_df.columns) |->
                              IF c \in ColumnSet(combined_df.fy_columns) \/ c = TotalLabel
                              THEN ColumnSum(c) ELSE NaN]]
    IN  [columns |-> combined_df.columns,
         rows    |-> Append(combined_df.rows, total_row)]

\* line 182: what is written is final_df.round(2)
Written(final_df) ==
    [columns  |-> final_df.columns,
     final_df |-> final_df.rows,
     sheet    |-> [k \in 1..Len(final_df.rows) |->
                     [final_df.rows[k] EXCEPT !.cells =
                         [c \in DOMAIN final_df.rows[k].cells |->
                             Round2(final_df.rows[k].cells[c])]]]]

create_excel_file(data_frames, sheet_name) ==
    CHOOSE out \in
        {Written(final_df) :
            final_df \in {WithTotalRow(with_total) :
                with_total \in {WithRowTotals(combined_df, sheet_name) :
                    combined_df \in {CombinedFrame(data_frames)}}}} : TRUE

\* create_schedule_excel_file: one sheet per loan, numbers rounded
create_schedule_excel_file(data_frames) ==
    [i \in 1..Len(data_frames) |->
        [k \in 1..Len(data_frames[i]) |->
            [data_frames[i][k] EXCEPT
                !.Principal_Lakhs = Round2(@), !.Interest_Lakhs = Round2(@),
                !.Payment_Lakhs = Round2(@), !.Balance_Lakhs = Round2(@),
                !.EMI_Lakhs = Round2(@)]]]

(****************************** the batch upload ***************************)

VARIABLES
    pc,        \* "uploaded", "loop" or "done"
    df,        \* the uploaded sheet: [columns, rows]
    idx,       \* the row the loop is at
    call,      \* the loop's last turn: the arguments of calculate_amortization
               \* and what it returned or what was raised
    results,   \* one entry per accepted loan
    messages,  \* what st.error has shown
    files      \* the download buttons' data; <<>> when there are none

vars == <<pc, df, idx, call, results, messages, files>>

required_columns ==
    {"sr_no", "bank_name_or_loan_no", "loan_amount", "interest_rate",
     "loan_term", "start_date"}

\* int(x) of a float cell: ValueError on NaN, else the fraction is dropped
IntOf(x) ==
    IF IsNaN(x) THEN [ok |-> FALSE, value |-> 0]
    ELSE [ok |-> TRUE,
          value |-> IF x[1] >= 0 THEN x[1] \div x[2] ELSE -((-x[1]) \div x[2])]

\* lines 292-302: a str cell is read as month/day/year, then as day/month/year;
\* a datetime cell is formatted; any other cell is left as it is
ConvertStartDate(cell) ==
    IF cell.kind = "str"
    THEN IF StrptimeMDY(cell.text).ok
         THEN [ok |-> TRUE,
               start_date |-> [kind |-> "str",
                               text |-> StrftimeYMD(StrptimeMDY(cell.text).date)]]
         ELSE IF StrptimeDMY(cell.text).ok
         THEN [ok |-> TRUE,
               start_date |-> [kind |-> "str",
                               text |-> StrftimeYMD(StrptimeDMY(cell.text).date)]]
         ELSE [ok |-> FALSE, start_date |-> cell]
    ELSE IF cell.kind = "datetime"
    THEN [ok |-> TRUE,
          start_date |-> [kind |-> "str",
                          text |-> StrftimeYMD(Date(cell.text[1], cell.text[2], cell.text[3]))]]
    ELSE [ok |-> TRUE, start_date |-> cell]

NoCall ==
    [loan_amount_lakhs |-> NaN, annual_rate |-> NaN, term_months |-> 0,
     start_date |-> [kind |-> "nan", text |-> <<>>],
     payment_amount_lakhs |-> None, raised |-> "none", schedule |-> <<>>]

\* the body of the loop for one row up to the call of calculate_amortization
\* (lines 285-307), as the call it makes:
\* raised "ValueError"   int() or calculate_amortization raised it: line 313
\*        "invalid_date" line 299 reports the date and the loop continues
\*        "TypeError"    the exception leaves the loop: line 349 reports the file
\*        ""             the schedule is made
Attempt(row, columns) ==
    LET term == IntOf(row.loan_term)
        conv == ConvertStartDate(row.start_date)
        payment_amount_lakhs ==
            IF "payment_amount" \in columns /\ ~IsNaN(row.payment_amount)
            THEN row.payment_amount ELSE None
        amort == calculate_amortization(row.loan_amount, row.interest_rate, term.value,
                                        conv.start_date, payment_amount_lakhs)
    IN  IF ~term.ok THEN [NoCall EXCEPT !.raised = "ValueError"]
        ELSE IF ~conv.ok THEN [NoCall EXCEPT !.raised = "invalid_date"]
        ELSE [loan_amount_lakhs |-> row.loan_amount,
              annual_rate |-> row.interest_rate, term_months |-> term.value,
              start_date |-> conv.start_date,
              payment_amount_lakhs |-> payment_amount_lakhs,
              raised |-> amort.raised, schedule |-> amort.schedule]

\* lines 276-281: the check of the sheet's column names
CheckColumns ==
    /\ pc = "uploaded"
    /\ IF required_columns \subseteq df.columns
       THEN /\ pc' = "loop"
            /\ UNCHANGED messages
       ELSE /\ pc' = "done"
            /\ messages' = Append(messages, [kind |-> "columns", sr_no |-> <<>>])
    /\ UNCHANGED <<df, idx, call, results, files>>

\* lines 283-314: one turn of the loop
ProcessRow ==
    /\ pc = "loop"
    /\ idx <= Len(df.rows)
    /\ call' = Attempt(df.rows[idx], df.columns)
    /\ results' =
          IF call'.raised = ""
          THEN Append(results,
                      calculate_annual_metrics(call'.schedule, Str(df.rows[idx].sr_no),
                                               df.rows[idx].bank_name_or_loan_no,
                                               call'.loan_amount_lakhs))
          ELSE results
    /\ messages' =
          IF call'.raised = "" THEN messages
          ELSE IF call'.raised = "TypeError"
          THEN Append(messages, [kind |-> "file", sr_no |-> <<>>])
          ELSE Append(messages, [kind |-> call'.raised,
                                 sr_no |-> Str(df.rows[idx].sr_no)])
    /\ pc' = IF call'.raised = "TypeError" THEN "done" ELSE "loop"
    /\ idx' = idx + 1
    /\ UNCHANGED <<df, files>>

Column5(entries, field) == [k \in 1..Len(entries) |-> entries[k][field]]

\* lines 316-346: after the loop, the five downloads when results is not empty
Download ==
    /\ pc = "loop"
    /\ idx > Len(df.rows)
    /\ pc' = "done"
    /\ files' =
          IF results = <<>> THEN <<>>
          ELSE <<[Principal   |-> create_excel_file(Column5(results, "principal_pivot"),
                                                   PrincipalLabel),
                  Interest    |-> create_excel_file(Column5(results, "interest_pivot"),
                                                   InterestLabel),
                  Outstanding |-> create_excel_file(Column5(results, "outstanding_pivot"),
                                                   OutstandingLabel),
                  Liabilities |-> create_excel_file(Column5(results, "liabilities_pivot"),
                                                   LiabilitiesSheet),
                  Schedule    |-> create_schedule_excel_file(
                                      Column5(results, "schedule_df"))]>>
    /\ UNCHANGED <<df, idx, call, results, messages>>

Next == CheckColumns \/ ProcessRow \/ Download

(******************************* the uploads *******************************)

\* the longest loan term and the largest number of rows of an upload
MaxTerm == 3

MaxBatch == 2

DateCell(y, m, d) == [kind |-> "datetime", text |-> <<y, m, d>>]

TextCell(a, b, c) == [kind |-> "str", text |-> <<a, b, c>>]

EmptyCell == [kind |-> "nan", text |-> <<>>]

Record(amount, rate, term, start, payment) ==
    [sr_no |-> 0, bank_name_or_loan_no |-> <<>>, loan_amount |-> amount,
     interest_rate |-> rate, loan_term |-> term, start_date |-> start,
     payment_amount |-> payment]

Amount == Rat(1, 100)

Rates == {Int2Float(30), Int2Float(40), Int2Float(48)}

Terms == {Int2Float(t) : t \in 1..MaxTerm}

\* an empty cell, 0, and payments below the first interest, below the annuity
\* and above it (13/1250 is the annuity of one period at 48%)
Payments ==
    {NaN, Zero, Rat(1, 5000), Rat(1, 1000), Rat(3, 500), Rat(13, 1250), Rat(1, 50)}

StartDates ==
    {DateCell(2022, 1, 31), DateCell(2024, 1, 31), DateCell(2022, 2, 22),
     DateCell(2022, 3, 5), DateCell(2022, 3, 31), DateCell(2022, 4, 1),
     DateCell(2021, 12, 4), DateCell(2022, 12, 15)}

\* a sheet of one loan: every combination
LoanRecords ==
    {Record(Amount, r, t, s, p) :
        r \in Rates, t \in Terms, s \in StartDates, p \in Payments}

\* loans of a sheet of several: a few usable ones and the ways a row is unusable
UsableRecords ==
    {Record(Amount, Int2Float(48), Int2Float(t), s, NaN) :
        t \in {1, MaxTerm},
        s \in {DateCell(2022, 2, 22), DateCell(2021, 12, 4), TextCell(15, 4, 2022)}}

UnusableRecords ==
    {Record(NaN, Int2Float(48), Int2Float(2), DateCell(2022, 2, 22), NaN),
     Record(Zero, Int2Float(48), Int2Float(2), DateCell(2022, 2, 22), NaN),
     Record(Amount, NaN, Int2Float(2), DateCell(2022, 2, 22), NaN),
     Record(Amount, Int2Float(50), Int2Float(2), DateCell(2022, 2, 22), NaN),
     Record(Amount, Int2Float(48), NaN, DateCell(2022, 2, 22), NaN),
     Record(Amount, Int2Float(48), Zero, DateCell(2022, 2, 22), NaN),
     Record(Amount, Int2Float(48), Int2Float(2), EmptyCell, NaN),
     Record(Amount, Int2Float(48), Int2Float(2), TextCell(31, 2, 2022), NaN)}

BatchRecords == UsableRecords \cup UnusableRecords

Batches ==
    {<<r>> : r \in LoanRecords} \cup
    UNION {[1..n -> BatchRecords] : n \in 2..MaxBatch}

\* the rows are numbered and named as the template's are: 1, 2, ... and A1, A2, ...
Numbered(batch) ==
    [i \in 1..Len(batch) |->
        [batch[i] EXCEPT !.sr_no = i, !.bank_name_or_loan_no = <<"A">> \o Str(i)]]

ColumnSets ==
    {required_columns \cup {"payment_frequecy", "payment_amount"},
     required_columns,
     required_columns \ {"start_date"}}

Init ==
    /\ pc = "uploaded"
    /\ df \in {[columns |-> c, rows |-> Numbered(b)] : c \in ColumnSets, b \in Batches}
    /\ idx = 1
    /\ call = NoCall
    /\ results = <<>>
    /\ messages = <<>>
    /\ files = <<>>

Spec == Init /\ [][Next]_vars

(************************ what the claims speak about ***********************)

\* the date the generator gave period k (line 62, then line 84 k - 1 times)
RECURSIVE PaymentDate(_, _)
PaymentDate(start, k) ==
    IF k = 1 THEN start ELSE NextDate(PaymentDate(start, k - 1))

\* the loop's last turn made a schedule
Made == call.raised = ""

StartOfCall == StrptimeYMD(call.start_date.text).date

MonthlyRateOfCall == RDiv(RDiv(call.annual_rate, Int2Float(100)), Int2Float(12))

\* principal > 0, 0 < rate < 50, term >= 1
ValidLoan ==
    /\ RLt(Zero, call.loan_amount_lakhs)
    /\ RLt(Zero, call.annual_rate)
    /\ RLt(call.annual_rate, Int2Float(50))
    /\ call.term_months >= 1

PrincipalPaid ==
    SumSkipNa([k \in 1..Len(call.schedule) |-> call.schedule[k].Principal_Lakhs])

FinalBalance == call.schedule[Len(call.schedule)].Balance_Lakhs

FixedPayment ==
    /\ call.payment_amount_lakhs # None
    /\ RLt(Zero, call.payment_amount_lakhs)

\* the installment the annuity formula gives this loan, in lakhs
AnnuityOfCall ==
    RDiv(Annuity(RMul(call.loan_amount_lakhs, Lakh), MonthlyRateOfCall,
                 call.term_months), Lakh)

\* the balance period k starts from, in lakhs
OpeningBalance(k) ==
    IF k = 1 THEN call.loan_amount_lakhs ELSE call.schedule[k - 1].Balance_Lakhs

\* C2 as claimed: every valid loan, whatever its fixed payment, repays exactly
\* its principal: the principal components add up to the loan amount and the
\* last closing balance is 0.
C2_PrincipalSumsToLoan ==
    (Made /\ ValidLoan) =>
        /\ PrincipalPaid = call.loan_amount_lakhs
        /\ FinalBalance = Zero

\* C2 as amended: a valid loan with no fixed payment (absent or 0), or with a
\* fixed payment of at least the annuity installment, repays exactly its
\* principal: the principal components add up to the loan amount and the last
\* closing balance is 0.
C2_PrincipalSumsToLoanWhenPaymentCovers ==
    (/\ Made
     /\ ValidLoan
     /\ FixedPayment => RLe(AnnuityOfCall, call.payment_amount_lakhs)) =>
        /\ PrincipalPaid = call.loan_amount_lakhs
        /\ FinalBalance = Zero

\* a fixed payment above the annuity has paid the loan off before the last period
C2_Witness ==
    /\ Made
    /\ ValidLoan
    /\ FixedPayment
    /\ RLt(AnnuityOfCall, call.payment_amount_lakhs)
    /\ call.term_months >= 2
    /\ call.schedule[1].Balance_Lakhs = Zero
    /\ PrincipalPaid = call.loan_amount_lakhs

\* C9: a positive fixed payment raises no error, and in every period whose
\* accruing interest (opening balance x monthly rate) exceeds it the principal
\* component is payment - interest, which is negative, the payment is not
\* changed, and the closing balance is above the opening balance.
C9_NegativeAmortization ==
    (ValidLoan /\ FixedPayment /\ call.start_date.kind = "str") =>
        /\ Made
        /\ Len(call.schedule) = call.term_months
        /\ \A k \in 1..Len(call.schedule) :
              RLt(call.payment_amount_lakhs, RMul(OpeningBalance(k), MonthlyRateOfCall)) =>
                 /\ call.schedule[k].Interest_Lakhs =
                       RMul(OpeningBalance(k), MonthlyRateOfCall)
                 /\ call.schedule[k].Principal_Lakhs =
                       RSub(call.payment_amount_lakhs, call.schedule[k].Interest_Lakhs)
                 /\ RLt(call.schedule[k].Principal_Lakhs, Zero)
                 /\ call.schedule[k].Payment_Lakhs = call.payment_amount_lakhs
                 /\ RLt(OpeningBalance(k), call.schedule[k].Balance_Lakhs)

\* a payment below the first interest, and the balance has grown twice
C9_Witness ==
    /\ Made
    /\ ValidLoan
    /\ FixedPayment
    /\ RLt(call.payment_amount_lakhs, RMul(call.loan_amount_lakhs, MonthlyRateOfCall))
    /\ call.term_months >= 2
    /\ RLt(call.loan_amount_lakhs, call.schedule[1].Balance_Lakhs)
    /\ RLt(call.schedule[1].Balance_Lakhs, call.schedule[2].Balance_Lakhs)

\* C8: the schedule has term rows, and row k is dated k - 1 calendar months
\* after the start date, on the start date's day of the month, or on the last
\* day of that month when the month is shorter.
C8_DatesKeepStartDay ==
    Made =>
        /\ Len(call.schedule) = call.term_months
        /\ \A k \in 1..Len(call.schedule) :
              call.schedule[k].Date = StrftimeDMY(AddMonths(StartOfCall, k - 1))

\* C10: parse_date gives back, for the text written in a row's Date, the date
\* the generator took the row's Financial_Year from.
C10_ParseDateRoundTrip ==
    Made =>
        \A k \in 1..Len(call.schedule) :
            /\ call.schedule[k].Date = StrftimeDMY(PaymentDate(StartOfCall, k))
            /\ parse_date(call.schedule[k].Date).ok
            /\ parse_date(call.schedule[k].Date).date = PaymentDate(StartOfCall, k)

\* the entry of results the loop's last turn appended
LastEntry == results[Len(results)]

Metrics ==
    {[field |-> "principal_pivot", label |-> PrincipalLabel, sheet |-> "Principal"],
     [field |-> "interest_pivot", label |-> InterestLabel, sheet |-> "Interest"],
     [field |-> "outstanding_pivot", label |-> OutstandingLabel, sheet |-> "Outstanding"],
     [field |-> "liabilities_pivot", label |-> LiabilityLabel, sheet |-> "Liabilities"]}

\* C5: the fiscal-year columns of every summary row are the years from the
\* Financial_Year of the schedule's first row up to, and without,
\* min(Financial_Year of the last row + 1, first + 20).
C5_YearColumns ==
    \A e \in 1..Len(results) :
        LET sched   == results[e].schedule_df
            minYear == sched[1].Financial_Year
            maxYear == Min(sched[Len(sched)].Financial_Year + 1, minYear + YearCap)
        IN  \A m \in Metrics :
                ColumnSet(results[e][m.field].columns) =
                    {ColumnName(m.label, y) : y \in minYear..(maxYear - 1)}

\* the years calculate_annual_metrics enumerated for the last entry
EnumeratedYears == Years(LastEntry.schedule_df)

\* the periods of the last call paid on or before `date`
PaidBy(date) ==
    {k \in 1..Len(call.schedule) : DateLe(PaymentDate(StartOfCall, k), date)}

\* C6: Outstanding of fiscal year Y is the closing balance of the last row paid
\* on or before 31 March of Y + 1, the loan amount if the first payment is
\* after that day, and 0 if the loan has started and no row qualifies.
C6_Outstanding ==
    Made =>
        \A i \in 1..Len(EnumeratedYears) :
            LET year_end == Date(EnumeratedYears[i] + 1, 3, 31)
                paid     == PaidBy(year_end)
                last     == CHOOSE k \in paid : \A j \in paid : j <= k
                value    == LastEntry.outstanding_pivot.cells[
                                ColumnName(OutstandingLabel, EnumeratedYears[i])]
            IN  value = IF paid # {} THEN call.schedule[last].Balance_Lakhs
                        ELSE IF DateLt(year_end, StartOfCall)
                        THEN call.loan_amount_lakhs
                        ELSE Zero

\* C7: Liability of fiscal year Y is the sum of the principal components of the
\* rows paid after 31 March of Y + 1 and on or before 31 March of Y + 2.
C7_Liability ==
    Made =>
        \A i \in 1..Len(EnumeratedYears) :
            LET year_end == Date(EnumeratedYears[i] + 1, 3, 31)
                next_end == Date(EnumeratedYears[i] + 2, 3, 31)
                Due(k)   == k \in PaidBy(next_end) \ PaidBy(year_end)
                due      == SelectSeq([k \in 1..Len(call.schedule) |-> k], Due)
                value    == LastEntry.liabilities_pivot.cells[
                                ColumnName(LiabilityLabel, EnumeratedYears[i])]
            IN  value = SumSkipNa([j \in 1..Len(due) |->
                                      call.schedule[due[j]].Principal_Lakhs])

Sheets == {"Principal", "Interest", "Outstanding", "Liabilities"}

\* the loan rows of a table, and its Total row
LoanRows(table) == SubSeq(table.final_df, 1, Len(table.final_df) - 1)

TotalRow(table) == table.final_df[Len(table.final_df)]

YearColumns(table) == ColumnSet(table.columns) \ {TotalLabel}

\* the sum of the numbers in the cells, an empty cell counting 0
SumOver(cells) == SumSkipNa(cells)

\* a row with every required value, that meets the generator's preconditions
\* and has a start date that can be read
Usable(row) ==
    /\ ~IsNaN(row.loan_amount)
    /\ ~IsNaN(row.interest_rate)
    /\ ~IsNaN(row.loan_term)
    /\ RLt(Zero, row.loan_amount)
    /\ RLt(Zero, row.interest_rate)
    /\ RLt(row.interest_rate, Int2Float(50))
    /\ RLe(Int2Float(1), row.loan_term)
    /\ \/ row.start_date.kind = "datetime"
       \/ /\ row.start_date.kind = "str"
          /\ StrptimeMDY(row.start_date.text).ok \/ StrptimeDMY(row.start_date.text).ok

\* every row of the upload is a usable loan
AllUsable == \A i \in 1..Len(df.rows) : Usable(df.rows[i])

\* C1: in each of the four tables the Total row holds, in every fiscal-year
\* column and in Total, the sum of the loan rows' values in that column, and
\* every loan row's Total is the sum of its fiscal-year columns.
C1_TotalsInEveryTable ==
    (files # <<>> /\ AllUsable) =>
        \A sheet \in Sheets :
            LET table == files[1][sheet]
                rows  == LoanRows(table)
                NotTotal(c) == c # TotalLabel
                cols  == SelectSeq(table.columns, NotTotal)
            IN  /\ \A c \in ColumnSet(table.columns) :
                      TotalRow(table).cells[c] =
                          SumOver([k \in 1..Len(rows) |-> rows[k].cells[c]])
                /\ \A k \in 1..Len(rows) :
                      rows[k].cells[TotalLabel] =
                          SumOver([i \in 1..Len(cols) |-> rows[k].cells[cols[i]]])

\* C3: in the final table, the cell of a loan's row in a fiscal-year column
\* that only another loan has holds the number 0.
C3_ZeroFill ==
    (files # <<>> /\ AllUsable) =>
        \A m \in Metrics :
            LET table == files[1][m.sheet]
            IN  \A k \in 1..Len(results) :
                    \A c \in YearColumns(table) \ ColumnSet(results[k][m.field].columns) :
                        table.final_df[k].cells[c] = Zero

HasEntry(i) ==
    \E k \in 1..Len(results) : results[k].principal_pivot.sr_no = Str(i)

InEveryTable(i) ==
    /\ files # <<>>
    /\ \A sheet \in Sheets :
          \E k \in 1..Len(files[1][sheet].final_df) :
              files[1][sheet].final_df[k].sr_no = Str(i)

Reported(i) ==
    \E m \in 1..Len(messages) : messages[m].sr_no = Str(i)

\* C4: when the upload has been worked off, every unusable row has no entry
\* in results and an error reported for its loan, and every usable row, before
\* or after it, has its entry in results and its row in every table.
C4_RowsRejectedOneByOne ==
    (pc = "done" /\ required_columns \subseteq df.columns) =>
        \A i \in 1..Len(df.rows) :
            IF Usable(df.rows[i])
            THEN HasEntry(i) /\ InEveryTable(i)
            ELSE ~HasEntry(i) /\ Reported(i)

=============================================================================
